---- MODULE Spec2Model ----
(***************************************************************************)
(* Image-to-PDF Telegram bot: the per-user session store, the image        *)
(* ingestion handler (processImage) and the /convert handler, for the two  *)
(* loadable variants of the bot, src/index.js ("index") and                *)
(* src/unnamed/part_001 ("part_001").                                      *)
(*                                                                         *)
(* Node runs every handler on one thread: a handler runs without           *)
(* interruption from one await to the next, so each action below is the    *)
(* code between two suspension points of one handler (or a whole handler   *)
(* when it never awaits), or one timer callback.                           *)
(*                                                                         *)
(* Session objects live on a heap (sessions); the store (userSessions)     *)
(* maps a user to the identity of that user's session object, and a        *)
(* handler keeps the identity it was given in ctx.session, so that a       *)
(* handler can hold an object the store no longer holds.                   *)
(***************************************************************************)
EXTENDS Integers, Sequences, FiniteSets, TLC

\* ------------------------------------------------------------- bounds
MaxHandlers == 3      \* inbound events handled in one behaviour
MaxEpochs == 1        \* session lifetimes (TTLs) the clock runs over
\* The configured image limit. It is 50 in the source (MAX_IMAGES_PER_USER,
\* index.js 18; MAX_IMAGES, part_001 19), where it is used in one
\* comparison only (AtCapacity); it is kept small here so that a session
\* can be filled.
MaxImagesPerSession == 2

\* ------------------------------------------------- program constants
SESSION_TIMEOUT == 60 * 60 * 1000
SESSION_MAX_AGE == 86400000
MAX_PDF_SIZE == 50 * 1024 * 1024
PDF_SIZE_LIMIT == 45 * 1024 * 1024

\* ----------------------------------------------------- input domains
Variants == {"index", "part_001"}
Users == {1}
Handlers == 1 .. MaxHandlers
NoSession == 0
\* a session object is named by the handler whose middleware run created
\* it; Stored names the one the store holds from the start in a run that
\* starts with a filled session
Stored == MaxHandlers + 1
SessionIds == Handlers \cup {Stored}
\* Date.now() when the process starts (milliseconds, never 0)
StartTime == 1
\* byte lengths of a normalized image
SmallImage == 512 * 1024
BigImage == 26 * 1024 * 1024
ImageSizes == {SmallImage, BigImage}

VARIABLES
    variant,        \* which file is running
    now,            \* Date.now()
    lastSweep,      \* time of the last cleanupSessions run (index)
    userSessions,   \* the store: user -> session object, or NoSession
    sessions,       \* heap of session objects: [images, lastActive]
    handlers,       \* one record per inbound event (see Idle)
    crashed,        \* an exception escaped every handler: process is gone
    log,            \* history: per session object, ids pushed since its
                    \* images were last reset, in order of completion
    evicted,        \* history: per user, image ids of swept sessions
    lastStep        \* history: per user, whether the last handler step
                    \* of the user was a /cancel

vars == <<variant, now, lastSweep, userSessions, sessions, handlers,
          crashed, log, evicted, lastStep>>

\* an image is its identity and the byte length of its stored buffer
Image(id, size) == [id |-> id, size |-> size]
Ids(imgs) == {imgs[i].id : i \in 1 .. Len(imgs)}

\* the image ingested by handler h
NewImageId(h) == h

EmptySession == [images |-> <<>>, lastActive |-> 0]

Idle == [kind |-> "none", user |-> 0, sess |-> NoSession, pc |-> "idle",
         idx |-> 0, live |-> FALSE, snap |-> <<>>,
         pages |-> <<>>, total |-> 0,
         outcome |-> "none", err |-> "none", count |-> 0,
         calls |-> 0, seen |-> 0, clean |-> TRUE, expect |-> <<>>,
         fresh |-> FALSE, born |-> {}]

\* the next unused handler slot (0 when all are used)
NextH == IF \E h \in Handlers : handlers[h].pc = "idle"
         THEN CHOOSE h \in Handlers :
                  /\ handlers[h].pc = "idle"
                  /\ \A g \in Handlers : g < h => handlers[g].pc # "idle"
         ELSE 0

InFlight(r) == r.pc \notin {"idle", "done"}

\* the images the store holds for user u (none when u has no session)
StoreImages(u) == IF userSessions[u] = NoSession THEN <<>>
                  ELSE sessions[userSessions[u]].images

\* index.js 16, part_001 18: const userSessions = {}
Init ==
    /\ variant \in Variants
    /\ now = StartTime
    /\ lastSweep = StartTime
    /\ userSessions = [u \in Users |-> NoSession]
    /\ sessions = [s \in SessionIds |-> EmptySession]
    /\ log = [s \in SessionIds |-> <<>>]
    /\ handlers = [h \in Handlers |-> Idle]
    /\ crashed = FALSE
    /\ evicted = [u \in Users |-> {}]
    /\ lastStep = [u \in Users |-> FALSE]

\* the store after MaxImagesPerSession ingests of a user, all completed
\* and acknowledged at StartTime, and no event in progress
StoredImages ==
    {imgs \in [1 .. MaxImagesPerSession ->
                  [id : MaxHandlers + 1 .. MaxHandlers + MaxImagesPerSession,
                   size : ImageSizes]] :
        \A i \in 1 .. MaxImagesPerSession : imgs[i].id = MaxHandlers + i}

InitLoaded ==
    /\ variant \in Variants
    /\ now = StartTime
    /\ lastSweep = StartTime
    /\ userSessions = [u \in Users |-> Stored]
    /\ \E imgs \in StoredImages :
          /\ sessions = [s \in SessionIds |->
                IF s = Stored
                THEN [images |-> imgs, lastActive |-> StartTime]
                ELSE EmptySession]
          /\ log = [s \in SessionIds |->
                IF s = Stored
                THEN [i \in 1 .. MaxImagesPerSession |-> imgs[i].id]
                ELSE <<>>]
    /\ handlers = [h \in Handlers |-> Idle]
    /\ crashed = FALSE
    /\ evicted = [u \in Users |-> {}]
    /\ lastStep = [u \in Users |-> FALSE]

\* ------------------------------------------------------------- clock
TTL == IF variant = "index" THEN SESSION_TIMEOUT ELSE SESSION_MAX_AGE
\* the instants the clock takes: the start, and for each session lifetime
\* that has passed since, the instant it ends and the millisecond after
\* (time passes in jumps between them)
Times == {StartTime} \cup
         {StartTime + e * TTL + j : e \in 1 .. MaxEpochs, j \in 0 .. 1}

Tick ==
    /\ ~crashed
    /\ \E t \in Times :
          /\ t > now
          /\ now' = t
    /\ UNCHANGED <<variant, lastSweep, userSessions, sessions, handlers,
                   crashed, log, evicted, lastStep>>

\* ------------------------------------------------------------- sweep
\* mutant of SweepExpired: a session is dropped at the very end of its
\* lifetime already
SweepExpiredAtTTL(sess, t) ==
    sess.lastActive = 0 \/ t - sess.lastActive >= SESSION_TIMEOUT

\* index.js 26-27: the condition under which cleanupSessions deletes
SweepExpired(sess, t) ==
    sess.lastActive = 0 \/ t - sess.lastActive > SESSION_TIMEOUT

\* index.js 21-34, run by the timer of line 37
cleanupSessions ==
    /\ ~crashed
    /\ variant = "index"
    /\ now - lastSweep >= SESSION_TIMEOUT
    /\ lastSweep' = now
    /\ userSessions' = [u \in Users |->
          IF userSessions[u] # NoSession
             /\ SweepExpired(sessions[userSessions[u]], now)
          THEN NoSession ELSE userSessions[u]]
    /\ evicted' = [u \in Users |->
          IF userSessions[u] # NoSession
             /\ now - sessions[userSessions[u]].lastActive > SESSION_TIMEOUT
          THEN evicted[u] \cup Ids(sessions[userSessions[u]].images)
          ELSE evicted[u]]
    /\ UNCHANGED <<variant, now, sessions, handlers, crashed, log, lastStep>>

\* --------------------------------------------------- history helpers
\* handler g of some user has run: every other handler of that user that
\* is converting has now been interleaved with
Touch(hs, g) ==
    [h \in Handlers |->
        IF h # g /\ hs[h].user = hs[g].user /\ hs[h].kind = "convert"
           /\ InFlight(hs[h])
        THEN [hs[h] EXCEPT !.clean = FALSE] ELSE hs[h]]

Done(r, outcome, err) ==
    [r EXCEPT !.pc = "done", !.outcome = outcome, !.err = err,
              !.idx = 0, !.live = FALSE, !.snap = <<>>]

\* -------------------------------------------------------- middleware
\* index.js 40-55: get or create the session, refresh lastActive
IndexMiddleware(u, h) ==
    LET had == userSessions[u] # NoSession
        sid == IF had THEN userSessions[u] ELSE h
    IN  [expired |-> FALSE, fresh |-> ~had, sid |-> sid,
         us |-> [userSessions EXCEPT ![u] = sid],
         ss |-> [sessions EXCEPT ![sid] =
                    IF had THEN [@ EXCEPT !.lastActive = now]
                    ELSE [images |-> <<>>, lastActive |-> now]]]

\* part_001 21-38: get or create, then drop the session and the event
\* when the timestamp is older than 24 h, else refresh the timestamp
\* (the field is called timestamp there; unset is modelled as 0)
Part1Middleware(u, h) ==
    LET had == userSessions[u] # NoSession
        sid == IF had THEN userSessions[u] ELSE h
        cur == IF had THEN sessions[sid]
               ELSE [images |-> <<>>, lastActive |-> 0]
        old == cur.lastActive # 0 /\ now - cur.lastActive > SESSION_MAX_AGE
    IN  IF old
        THEN [expired |-> TRUE, fresh |-> ~had, sid |-> NoSession,
              us |-> [userSessions EXCEPT ![u] = NoSession],
              ss |-> sessions]
        ELSE [expired |-> FALSE, fresh |-> ~had, sid |-> sid,
              us |-> [userSessions EXCEPT ![u] = sid],
              ss |-> [sessions EXCEPT ![sid] =
                         [cur EXCEPT !.lastActive = now]]]

Middleware(u, h) ==
    IF variant = "index" THEN IndexMiddleware(u, h)
    ELSE Part1Middleware(u, h)

\* the handler record of a new event of kind k, after the middleware
Started(u, k, m) ==
    [Idle EXCEPT !.kind = k, !.user = u, !.sess = m.sid,
                 !.fresh = m.fresh, !.born = evicted[u]]

\* ctx.session.images = [] replaces the array object: a convert loop of
\* index.js that iterates the old array keeps the old array, which
\* nothing can reach to change any more
Detach(hs, s, old) ==
    [g \in Handlers |->
        IF hs[g].kind = "convert" /\ hs[g].pc = "sharp" /\ hs[g].sess = s
           /\ hs[g].live
        THEN [hs[g] EXCEPT !.live = FALSE, !.snap = old] ELSE hs[g]]

\* ------------------------------------------------------------ cancel
\* mutant of CancelImages: the first image only is dropped
CancelImagesFirst(imgs) == IF imgs = <<>> THEN <<>> ELSE Tail(imgs)

\* index.js 87, part_001 60: ctx.session.images = []
CancelImages(imgs) == <<>>

\* index.js 86-89, part_001 59-62 (behind the middleware)
CancelEvent(u) ==
    /\ ~crashed
    /\ NextH # 0
    /\ LET h == NextH
           m == Middleware(u, h)
           r == Started(u, "cancel", m)
       IN  /\ userSessions' = m.us
           /\ IF m.expired
              THEN /\ sessions' = m.ss
                   /\ log' = log
                   /\ handlers' = Touch([handlers EXCEPT
                           ![h] = Done(r, "Expired", "none")], h)
              ELSE /\ sessions' = [m.ss EXCEPT ![m.sid].images =
                                      CancelImages(@)]
                   /\ log' = [log EXCEPT ![m.sid] = <<>>]
                   /\ handlers' = Touch(Detach([handlers EXCEPT
                           ![h] = Done(r, "Cleared", "none")],
                           m.sid, m.ss[m.sid].images), h)
    /\ lastStep' = [lastStep EXCEPT ![u] = TRUE]
    /\ UNCHANGED <<variant, now, lastSweep, crashed, evicted>>

\* ------------------------------------------------------------ ingest
\* processImage awaits getFileLink, fetch, response.buffer, sharp
\* (index.js 130-137) or getFileLink, downloadImage, sharp, metadata
\* (part_001 84-93) one after the other with no statement of its own in
\* between: the handler is "fetching" from the first call to the return
\* of the last, and any of them may throw
IngestCalls == 4

\* index.js 123, part_001 80
AtCapacity(imgs) == Len(imgs) >= MaxImagesPerSession

\* mutant of Push: the image goes to the front (unshift)
PushFront(imgs, img) == <<img>> \o imgs

\* index.js 142, part_001 95: ctx.session.images.push(...)
Push(imgs, img) == Append(imgs, img)

\* photo / document event: middleware, then processImage up to its
\* first await (index.js 92-95, 122-130; part_001 109-111, 78-84)
ImageEvent(u) ==
    /\ ~crashed
    /\ NextH # 0
    /\ LET h == NextH
           m == Middleware(u, h)
           r == Started(u, "image", m)
       IN  /\ userSessions' = m.us
           /\ sessions' = m.ss
           /\ handlers' = Touch([handlers EXCEPT ![h] =
                 IF m.expired THEN Done(r, "Expired", "none")
                 ELSE IF AtCapacity(m.ss[m.sid].images)
                 THEN Done([r EXCEPT !.seen = Len(m.ss[m.sid].images)],
                           "Capacity", "none")
                 ELSE [r EXCEPT !.seen = Len(m.ss[m.sid].images),
                                !.pc = "fetching", !.calls = 1]], h)
    /\ lastStep' = [lastStep EXCEPT ![u] = FALSE]
    /\ UNCHANGED <<variant, now, lastSweep, crashed, log, evicted>>

\* the awaited calls of processImage have returned: the image is pushed
\* and acknowledged (index.js 130-143, part_001 84-101)
IngestReturn(h) ==
    /\ ~crashed
    /\ handlers[h].pc = "fetching"
    /\ LET r == handlers[h]
           s == r.sess
       IN  \E sz \in ImageSizes :
                /\ sessions' = [sessions EXCEPT ![s].images =
                                   Push(@, Image(NewImageId(h), sz))]
                /\ log' = [log EXCEPT ![s] = Append(@, NewImageId(h))]
                /\ handlers' = Touch([handlers EXCEPT ![h] =
                      Done([r EXCEPT !.count = Len(sessions'[s].images),
                                     !.calls = IngestCalls],
                           "Added", "none")], h)
    /\ lastStep' = [lastStep EXCEPT ![handlers[h].user] = FALSE]
    /\ UNCHANGED <<variant, now, lastSweep, userSessions, crashed, evicted>>

\* mutant of IngestThrow: the image is pushed before the call that throws
IngestThrowPushed(h) ==
    /\ ~crashed
    /\ handlers[h].pc = "fetching"
    /\ sessions' = [sessions EXCEPT ![handlers[h].sess].images =
                       Push(@, Image(NewImageId(h), SmallImage))]
    /\ handlers' = Touch([handlers EXCEPT ![h] =
          Done(@, "IngestFailed", "none")], h)
    /\ lastStep' = [lastStep EXCEPT ![handlers[h].user] = FALSE]
    /\ UNCHANGED <<variant, now, lastSweep, userSessions,
                   crashed, log, evicted>>

\* an awaited call of processImage throws: the catch replies
\* (index.js 144-147, part_001 102-105)
IngestThrow(h) ==
    /\ ~crashed
    /\ handlers[h].pc = "fetching"
    /\ handlers' = Touch([handlers EXCEPT ![h] =
          Done(@, "IngestFailed", "none")], h)
    /\ lastStep' = [lastStep EXCEPT ![handlers[h].user] = FALSE]
    /\ UNCHANGED <<variant, now, lastSweep, userSessions, sessions,
                   crashed, log, evicted>>

\* ----------------------------------------------------------- convert
\* index.js 152, part_001 127
NoImages(imgs) == Len(imgs) = 0

\* A document under construction is the sequence of its pages, a page
\* the sequence of the images placed on it.
\* new PDFDocument() starts with a first page (index.js 159);
\* new PDFDocument({ autoFirstPage: false }) has none (part_001 134)
NewDocument == IF variant = "index" THEN << <<>> >> ELSE <<>>
\* pdfDoc.addPage()
AddPage(pages) == Append(pages, <<>>)
\* pdfDoc.image(...): the image goes on the current (last) page
PlaceImage(pages, id) == [pages EXCEPT ![Len(pages)] = Append(@, id)]

\* index.js 166-169, part_001 140-143: the 'data' listener
OnData(total, len) == total + len
OverLimit(total) ==
    IF variant = "index" THEN total > MAX_PDF_SIZE
    ELSE total > PDF_SIZE_LIMIT

\* index.js 180: the loop adds a page after every image but the last,
\* judged by the length of the session's array as it is now
NeedsPage(index, imgs) == index < Len(imgs) - 1

\* index.js 197, part_001 168: ctx.session.images = []
ConvertClear(imgs) == <<>>

\* /convert: middleware, then the handler up to its first await.
\* index.js 151-173: emptiness check, document, data listener, and the
\* loop up to its first await sharp(...) (a loop over no element goes
\* straight to pdfDoc.end() and replyWithDocument). part_001 126-132:
\* emptiness check, await ctx.reply(...)
ConvertEvent(u) ==
    /\ ~crashed
    /\ NextH # 0
    /\ LET h == NextH
           m == Middleware(u, h)
           r == Started(u, "convert", m)
       IN  /\ userSessions' = m.us
           /\ sessions' = m.ss
           /\ handlers' = Touch([handlers EXCEPT ![h] =
                 IF m.expired THEN Done(r, "Expired", "none")
                 ELSE LET imgs == m.ss[m.sid].images
                          r1 == [r EXCEPT !.seen = Len(imgs),
                                          !.expect = log[m.sid]]
                      IN  IF NoImages(imgs)
                          THEN Done(r1, "NoImages", "none")
                          ELSE IF variant = "part_001"
                          THEN [r1 EXCEPT !.pc = "creating"]
                          ELSE IF 0 < Len(imgs)
                          THEN [r1 EXCEPT !.pc = "sharp", !.idx = 0,
                                          !.live = TRUE,
                                          !.pages = NewDocument]
                          ELSE [r1 EXCEPT !.pc = "send",
                                          !.pages = NewDocument]], h)
    /\ lastStep' = [lastStep EXCEPT ![u] = FALSE]
    /\ UNCHANGED <<variant, now, lastSweep, crashed, log, evicted>>

\* the array the loop of index.js 172 iterates
LoopArray(r) == IF r.live THEN sessions[r.sess].images ELSE r.snap

\* index.js 173-194: await sharp(...) returns; the image is placed, its
\* bytes reach the data listener inside pdfDoc.image (a throw there
\* lands in the catch of line 198), a page is added or not, and the
\* iterator either yields the next element (next await sharp) or the
\* loop ends: pdfDoc.end(), 'end', replyWithDocument is issued
ConvertLoop(h) ==
    /\ ~crashed
    /\ handlers[h].pc = "sharp"
    /\ handlers[h].kind = "convert"
    /\ LET r == handlers[h]
           arr == LoopArray(r)
           img == arr[r.idx + 1]
           placed == PlaceImage(r.pages, img.id)
           total == OnData(r.total, img.size)
           paged == IF NeedsPage(r.idx, sessions[r.sess].images)
                    THEN AddPage(placed) ELSE placed
       IN  handlers' = Touch([handlers EXCEPT ![h] =
              IF OverLimit(total)
              THEN Done([r EXCEPT !.pages = placed, !.total = total],
                        "PdfFailed", "size")
              ELSE IF r.idx + 1 < Len(arr)
              THEN [r EXCEPT !.pages = paged, !.total = total,
                             !.idx = r.idx + 1]
              ELSE [r EXCEPT !.pages = paged, !.total = total,
                             !.pc = "send", !.idx = 0, !.live = FALSE,
                             !.snap = <<>>,
                             !.count = Len(sessions[r.sess].images)]], h)
    /\ lastStep' = [lastStep EXCEPT ![handlers[h].user] = FALSE]
    /\ UNCHANGED <<variant, now, lastSweep, userSessions, sessions,
                   crashed, log, evicted>>

\* part_001 146-155: for each image from the k-th on, a page, then the
\* image on it (the test on next has TLC compute the document of one
\* iteration before it starts the following one)
RECURSIVE BuildPages(_, _, _)
BuildPages(pages, imgs, k) ==
    IF k > Len(imgs) THEN pages
    ELSE LET next == PlaceImage(AddPage(pages), imgs[k].id)
         IN  IF Len(next) = 0 THEN next
             ELSE BuildPages(next, imgs, k + 1)

\* the bytes the data listener of part_001 138-144 has counted when the
\* chunks from the k-th image on have been handed to it, up to the chunk
\* at which it throws
RECURSIVE CountBytes(_, _, _)
CountBytes(total, imgs, k) ==
    IF k > Len(imgs) \/ OverLimit(total) THEN total
    ELSE CountBytes(OnData(total, imgs[k].size), imgs, k + 1)

\* part_001 132-166: await ctx.reply(...) returns; the loop and
\* pdfDoc.end() run without an await. The stream has not been read yet,
\* so every chunk is held back and handed to the data listener from the
\* event loop right after; a throw of the listener there is outside the
\* try of line 131 and nothing catches it. Otherwise 'end' resolves the
\* promise and replyWithDocument is issued.
ConvertBuild(h) ==
    /\ ~crashed
    /\ handlers[h].pc = "creating"
    /\ LET r == handlers[h]
           imgs == sessions[r.sess].images
           pages == BuildPages(NewDocument, imgs, 1)
           total == CountBytes(0, imgs, 1)
       IN  /\ crashed' = OverLimit(total)
           /\ handlers' = Touch([handlers EXCEPT ![h] =
                 IF OverLimit(total)
                 THEN Done([r EXCEPT !.pages = pages, !.total = total],
                           "Uncaught", "size")
                 ELSE [r EXCEPT !.pages = pages, !.total = total,
                                !.pc = "send",
                                !.count = Len(imgs)]], h)
    /\ lastStep' = [lastStep EXCEPT ![handlers[h].user] = FALSE]
    /\ UNCHANGED <<variant, now, lastSweep, userSessions, sessions,
                   log, evicted>>

\* mutant of ConvertThrow: the catch also clears the session
ConvertThrowClears(h) ==
    /\ ~crashed
    /\ handlers[h].kind = "convert"
    /\ InFlight(handlers[h])
    /\ sessions' = [sessions EXCEPT ![handlers[h].sess].images = <<>>]
    /\ handlers' = Touch([handlers EXCEPT ![h] =
          Done(@, "PdfFailed", "fault")], h)
    /\ lastStep' = [lastStep EXCEPT ![handlers[h].user] = FALSE]
    /\ UNCHANGED <<variant, now, lastSweep, userSessions,
                   crashed, log, evicted>>

\* an awaited call of the convert handler throws: sharp (index.js 173),
\* ctx.reply (part_001 132) or replyWithDocument (index.js 189,
\* part_001 163); the catch replies (index.js 198-201, part_001 169-172)
ConvertThrow(h) ==
    /\ ~crashed
    /\ handlers[h].kind = "convert"
    /\ InFlight(handlers[h])
    /\ handlers' = Touch([handlers EXCEPT ![h] =
          Done(@, "PdfFailed", "fault")], h)
    /\ lastStep' = [lastStep EXCEPT ![handlers[h].user] = FALSE]
    /\ UNCHANGED <<variant, now, lastSweep, userSessions, sessions,
                   crashed, log, evicted>>

\* the document writer fails while the handler is suspended with the
\* document open, and the stream emits 'error'. part_001 157-161 has
\* registered reject for it: the promise rejects and the catch replies
\* (169-172). index.js 186 waits for 'end' with no 'error' listener: an
\* 'error' event nothing listens to is thrown by the emitter, outside the
\* handler, and 'end' never comes: no reply is sent.
WriterFault(h) ==
    /\ ~crashed
    /\ handlers[h].kind = "convert"
    /\ handlers[h].pc = IF variant = "index" THEN "sharp" ELSE "creating"
    /\ crashed' = (variant = "index")
    /\ handlers' = Touch([handlers EXCEPT ![h] =
          IF variant = "index" THEN Done(@, "Uncaught", "writer")
          ELSE Done(@, "PdfFailed", "writer")], h)
    /\ lastStep' = [lastStep EXCEPT ![handlers[h].user] = FALSE]
    /\ UNCHANGED <<variant, now, lastSweep, userSessions, sessions,
                   log, evicted>>

\* replyWithDocument returns: the document is with the user, and the
\* session the handler holds is cleared (index.js 189-197,
\* part_001 163-168)
ConvertSent(h) ==
    /\ ~crashed
    /\ handlers[h].pc = "send"
    /\ LET r == handlers[h]
           s == r.sess
       IN  /\ sessions' = [sessions EXCEPT ![s].images = ConvertClear(@)]
           /\ log' = [log EXCEPT ![s] = <<>>]
           /\ handlers' = Touch(Detach([handlers EXCEPT ![h] =
                 Done(r, "Document", "none")], s, sessions[s].images), h)
    /\ lastStep' = [lastStep EXCEPT ![handlers[h].user] = FALSE]
    /\ UNCHANGED <<variant, now, lastSweep, userSessions, crashed, evicted>>

\* ---------------------------------------------------- specification
Next ==
    \/ Tick
    \/ cleanupSessions
    \/ \E u \in Users : CancelEvent(u)
    \/ \E u \in Users : ImageEvent(u)
    \/ \E h \in Handlers : IngestReturn(h)
    \/ \E h \in Handlers : IngestThrow(h)
    \/ \E u \in Users : ConvertEvent(u)
    \/ \E h \in Handlers : ConvertLoop(h)
    \/ \E h \in Handlers : ConvertBuild(h)
    \/ \E h \in Handlers : ConvertThrow(h)
    \/ \E h \in Handlers : ConvertSent(h)
    \/ \E h \in Handlers : WriterFault(h)

Spec == Init /\ [][Next]_vars

\* a step of handler h: what it awaits returns or fails
HandlerStep(h) ==
    \/ IngestReturn(h)
    \/ IngestThrow(h)
    \/ ConvertLoop(h)
    \/ ConvertBuild(h)
    \/ ConvertThrow(h)
    \/ ConvertSent(h)
    \/ WriterFault(h)

\* every external call a handler awaits eventually returns or fails
FairSpec == Spec /\ \A h \in Handlers : WF_vars(HandlerStep(h))

\* the same program, started from a filled session
SpecLoaded == InitLoaded /\ [][Next]_vars

\* ============================================================ claims
\* the images the store holds for user u after the step
StoreImagesNext(u) == IF userSessions'[u] = NoSession THEN <<>>
                      ELSE sessions'[userSessions'[u]].images

\* the step with which handler h takes up an event of kind k
Takes(h, k) == handlers[h].pc = "idle" /\ handlers'[h].kind = k

\* a document of one page per image, in the order of ids
OnePagePerImage(ids) == [i \in 1 .. Len(ids) |-> <<ids[i]>>]

\* the images on the pages of a document
RECURSIVE OnPages(_)
OnPages(pages) ==
    IF pages = <<>> THEN {}
    ELSE {Head(pages)[i] : i \in 1 .. Len(Head(pages))}
         \cup OnPages(Tail(pages))

\* C1: in every reachable state every user's session holds at most
\* MaxImagesPerSession images, whatever the interleaving of image events.
\* (The code checks the limit before its awaits and pushes after them:
\* two overlapping ingests both pass the check.)
C1_SessionWithinLimit ==
    \A u \in Users : Len(StoreImages(u)) <= MaxImagesPerSession

C3_CapacityRejects ==
    [][\A h \in Handlers :
          (/\ Takes(h, "image")
           /\ Len(StoreImages(handlers'[h].user)) >= MaxImagesPerSession)
          => /\ handlers'[h].outcome = "Capacity"
             /\ handlers'[h].pc = "done"
             /\ handlers'[h].calls = 0
             /\ StoreImagesNext(handlers'[h].user)
                    = StoreImages(handlers'[h].user)]_vars

\* C4: at the moment a /convert finishes with its document sent, the
\* session the store holds for that user has no images, whatever was
\* interleaved with the convert.
C4_StoreEmptyWhenSent ==
    [][\A h \in Handlers :
          (handlers[h].pc = "send" /\ handlers'[h].outcome = "Document")
          => Len(StoreImagesNext(handlers[h].user)) = 0]_vars

\* the step with which a /convert whose assembly has started fails: in
\* the catch block with the failure reply, or with an exception that
\* nothing catches (the data listener's in part_001, the writer's in
\* index.js)
ConvertFails(h) ==
    /\ handlers[h].kind = "convert"
    /\ \/ /\ handlers[h].pc \in {"sharp", "send"}
          /\ handlers'[h].outcome \in {"PdfFailed", "Uncaught"}
       \/ /\ handlers[h].pc = "creating"
          /\ \/ handlers'[h].outcome = "Uncaught"
             \/ handlers'[h].err = "writer"

C6_SizeLimitReply ==
    \A h \in Handlers :
        OverLimit(handlers[h].total)
        => /\ handlers[h].outcome = "PdfFailed"
           /\ handlers[h].err = "size"

\* C7: a /convert handled while the user's session holds no images
\* replies with the no-images message, sends no document and leaves the
\* session as it was; and no /convert that found the session empty when
\* it checked ever sends a document.
C7_EmptyConvert ==
    [][/\ \A h \in Handlers :
            (/\ Takes(h, "convert")
             /\ Len(StoreImages(handlers'[h].user)) = 0)
            => /\ handlers'[h].outcome = "NoImages"
               /\ handlers'[h].pc = "done"
               /\ handlers'[h].pages = <<>>
               /\ StoreImagesNext(handlers'[h].user) = <<>>
       /\ \A h \in Handlers :
            handlers'[h].outcome = "Document" => handlers'[h].seen > 0]_vars

\* C8: a run of cleanupSessions at time now removes from the store every
\* session with now - lastActive > SESSION_TIMEOUT and keeps every other
\* session, unchanged.
C8_SweepEvictsExpired ==
    [][lastSweep' # lastSweep
       => \A u \in Users :
            userSessions[u] # NoSession
            => IF now - sessions[userSessions[u]].lastActive
                    > SESSION_TIMEOUT
               THEN userSessions'[u] = NoSession
               ELSE /\ userSessions'[u] = userSessions[u]
                    /\ sessions'[userSessions[u]]
                           = sessions[userSessions[u]]]_vars

\* a sweep has run and has removed a session that held images
C8_Witness ==
    /\ lastSweep # StartTime
    /\ \E u \in Users : userSessions[u] = NoSession /\ evicted[u] # {}

\* C9: once the sweep has evicted a session that held images, the store
\* never again holds one of these images for that user; a /convert that
\* finds no session in the store is handled against a new empty session
\* and replies no-images; and no document sent from then on shows an
\* image of the evicted session.
C9_EvictedImagesGone ==
    [][/\ \A u \in Users :
            Ids(StoreImagesNext(u)) \cap evicted'[u] = {}
       /\ \A h \in Handlers :
            (Takes(h, "convert") /\ handlers'[h].fresh)
            => handlers'[h].outcome = "NoImages"
       /\ \A h \in Handlers :
            (handlers[h].pc = "send" /\ handlers'[h].outcome = "Document")
            => OnPages(handlers[h].pages)
                   \cap evicted[handlers[h].user] = {}]_vars

\* C10: /cancel leaves the user's session with no images, in whatever
\* state it is taken up; taken up right after another /cancel of the
\* user it leaves the image list as that one left it.
C10_CancelClears ==
    [][\A h \in Handlers :
          Takes(h, "cancel")
          => /\ StoreImagesNext(handlers'[h].user) = <<>>
             /\ handlers'[h].outcome # "Expired"
                => sessions'[handlers'[h].sess].images = <<>>
             /\ lastStep[handlers'[h].user]
                => StoreImagesNext(handlers'[h].user)
                       = StoreImages(handlers'[h].user)]_vars

\* a /cancel on a session that held an image, and a second /cancel
\* right after it
C10_Witness ==
    \E h \in Handlers :
        /\ h > 1
        /\ h + 1 \in Handlers
        /\ handlers[h].kind = "cancel"
        /\ handlers[h].outcome = "Cleared"
        /\ handlers[h + 1].kind = "cancel"
        /\ handlers[h + 1].outcome = "Cleared"
        /\ \A g \in Handlers : g < h => handlers[g].outcome = "Added"
        /\ lastStep[handlers[h + 1].user]

\* C11: one batch of images never yields two documents: no two /convert
\* handlers of a user, whether the second was delivered after the first
\* had sent its document (it then replies no-images) or while the first
\* was still in progress, both send a document showing the same image.
C11_OneDocumentPerBatch ==
    \A h, g \in Handlers :
        (/\ h # g
         /\ handlers[h].kind = "convert"
         /\ handlers[g].kind = "convert"
         /\ handlers[h].outcome = "Document"
         /\ handlers[g].outcome = "Document")
        => OnPages(handlers[h].pages) \cap OnPages(handlers[g].pages) = {}

\* C12: when a /convert finishes with its document sent, every image the
\* session held at that moment (each was acknowledged as added) is on a
\* page of the document or is still in the session afterwards.
C12_NoAcknowledgedImageLost ==
    [][\A h \in Handlers :
          (handlers[h].pc = "send" /\ handlers'[h].outcome = "Document")
          => Ids(sessions[handlers[h].sess].images)
                 \subseteq (OnPages(handlers[h].pages)
                            \cup Ids(sessions'[handlers[h].sess].images))]_vars

\* C13: a run of cleanupSessions never deletes the session of a user one
\* of whose ingest or convert handlers is in flight, so that the session
\* a handler in flight holds is the one the store holds for its user.
C13_SweepSparesBusySessions ==
    [][lastSweep' # lastSweep
       => \A h \in Handlers :
            (InFlight(handlers[h]) /\ handlers[h].kind \in {"image", "convert"})
            => /\ userSessions'[handlers[h].user]
                      = userSessions[handlers[h].user]
               /\ userSessions'[handlers[h].user] = handlers[h].sess]_vars

\* C14: an ingest does not touch the image list of its session before its
\* awaited calls (file link, download, decode) have all returned: when it
\* starts them and when one of them fails, the list stays exactly as it
\* was; when they have all succeeded, the list grows by exactly one
\* element, the new image, at its end.
C14_IngestAllOrNothing ==
    [][\A h \in Handlers :
          /\ (Takes(h, "image") /\ handlers'[h].pc = "fetching")
             => sessions'[handlers'[h].sess].images
                    = StoreImages(handlers'[h].user)
          /\ (handlers[h].pc = "fetching" /\ handlers'[h].pc = "done")
             => LET old == sessions[handlers[h].sess].images
                    new == sessions'[handlers[h].sess].images
                IN  IF handlers'[h].outcome = "Added"
                    THEN /\ Len(new) = Len(old) + 1
                         /\ SubSeq(new, 1, Len(old)) = old
                         /\ new[Len(new)].id = NewImageId(h)
                         /\ handlers'[h].calls = IngestCalls
                    ELSE /\ handlers'[h].outcome = "IngestFailed"
                         /\ sessions' = sessions]_vars

\* an ingest has failed on a session that holds an image of an ingest
\* that succeeded
C14_Witness ==
    \E h, g \in Handlers :
        /\ handlers[h].kind = "image"
        /\ handlers[h].outcome = "IngestFailed"
        /\ handlers[g].outcome = "Added"
        /\ handlers[g].sess = handlers[h].sess
        /\ Ids(sessions[handlers[h].sess].images) = {NewImageId(g)}

\* C15: every document a /convert sends has exactly one image on each
\* of its pages, whatever was handled while the convert was suspended.
C15_OneImagePerPage ==
    \A h \in Handlers :
        (handlers[h].kind = "convert" /\ handlers[h].outcome = "Document")
        => \A i \in 1 .. Len(handlers[h].pages) :
               Len(handlers[h].pages[i]) = 1

\* C16: every event is handled with a session that the store holds for
\* its user after the middleware (the one it held before, or a new one)
\* and whose activity time is the time of the event; the middleware never
\* ends the event itself instead of passing it to its handler.
C16_SessionForEveryEvent ==
    [][\A h \in Handlers :
          (handlers[h].pc = "idle" /\ handlers'[h].pc # "idle")
          => LET u == handlers'[h].user
             IN  /\ userSessions'[u] # NoSession
                 /\ handlers'[h].sess = userSessions'[u]
                 /\ userSessions[u] # NoSession
                    => userSessions'[u] = userSessions[u]
                 /\ sessions'[userSessions'[u]].lastActive = now
                 /\ handlers'[h].outcome # "Expired"]_vars

\* C18: no /convert sends a document without pages; in particular a
\* /convert of part_001 whose session is emptied by a /cancel while it
\* awaits its "Creating PDF..." reply does not go on to build and send a
\* document of no pages.
C18_NoEmptyDocument ==
    \A h \in Handlers :
        (handlers[h].kind = "convert" /\ handlers[h].outcome = "Document")
        => Len(handlers[h].pages) >= 1

\* the replies that end an event: image added, rejection (capacity,
\* no images, session expired), document, failure message
FinalReplies == {"Added", "Capacity", "IngestFailed", "Expired",
                 "NoImages", "Document", "PdfFailed"}

\* C17: every image event and every /convert event eventually ends with
\* a final reply to the user, given that every call a handler awaits
\* eventually returns or fails.
C17_EveryEventReplied ==
    \A h \in Handlers :
        (handlers[h].kind \in {"image", "convert"})
        ~> (handlers[h].outcome \in FinalReplies)

====
